---------------------------- MODULE Spec2Model ----------------------------
(***************************************************************************)
(* GeneGraph server (src/server.py): the longitude -> gate/line classifier, *)
(* the design-time resolvers and the center/channel classifier.            *)
(*                                                                         *)
(* Angles are integers in arcseconds (1 degree = 3600), so every boundary  *)
(* of GATE_TABLE (given in degrees, minutes, seconds) and every line       *)
(* boundary (0.9375 degree = 3375 arcseconds) is exact.  Instants are      *)
(* integers in seconds.  What the program does below these resolutions    *)
(* (the 1e-9 degree epsilon of the line computation, the round-off of its  *)
(* floating-point sums, the microseconds of its datetimes) is not modelled. *)
(***************************************************************************)
EXTENDS Integers, Sequences, FiniteSets, TLC

VARIABLES
    pc,         \* position of the computation of the specification at hand
    \* ---- longitude classifier, applied along the wheel
    pos,        \* unwrapped longitude of the latest classified sample, -1 before the first
    lon_deg,    \* argument of the latest call of gate_line_from_longitude
    res,        \* its result
    trail,      \* earlier samples of the seam region lon_deg lies in
    arcFrom,    \* where the current (gate, line) arc began, -1 while unknown
    arcs,       \* completed arcs: [gate, line, from, width]
    \* ---- snapshots and the center/channel classifier
    sky,        \* the ephemeris: sky[side][body] is the body's longitude at that instant
    natal,      \* compute_bodies(dt_utc)
    design,     \* compute_bodies(dt_design)
    hd,         \* compute_hd(natal, design)
    \* ---- design-time resolvers
    birth_utc,  \* the natal instant
    design_mode,\* the request's designMode
    sunPace,    \* the ephemeris: seconds the sun takes per arcsecond of longitude
    sun0,       \* design_time_from_solar_arc: the sun's longitude at birth
    lo,         \* its search window
    hi,
    iter,       \* iterations of its loop done so far
    dt_design,  \* the resolved design instant, None before
    \* ---- the /compute-profile handler
    payload,    \* what the request gives: birthDate, birthPlace, includeHD
    failing,    \* the ephemeris: the lookups <<side, body>> that raise
    body_i,     \* compute_bodies: bodies its loop has been through
    out,        \* compute_bodies: its dict so far
    exc,        \* the exception on its way to the handler, NoExc if none
    profile,    \* build_gene_keys_profile(natal, design)
    response    \* what the route returns, NoResponse before

wheelVars == <<pos, lon_deg, res, trail, arcFrom, arcs>>
hdVars == <<sky, natal, design, hd>>
designVars == <<birth_utc, design_mode, sunPace, sun0, lo, hi, iter, dt_design>>
profileVars == <<payload, failing, body_i, out, exc, profile, response>>
vars == <<pc, wheelVars, hdVars, designVars, profileVars>>

----------------------------------------------------------------------------
(* Bounds of the model *)

\* samples taken on each side of every candidate boundary, in arcseconds
MaxOff == 1

\* how many longitudes of EphPool the ephemeris may answer with
PoolSize == 14

\* natal instants tried: 0..MaxBirth times BirthStride
MaxBirth == 5

\* the sun's pace departs from 1 degree a day by at most this many seconds per
\* arcsecond (24 s per arcsecond is 1 degree a day)
MaxDrift == 1

\* natal instants of the requests to /compute-profile: 0..MaxProfileBirth
\* times BirthStride
MaxProfileBirth == 1

----------------------------------------------------------------------------
(* Constants of the program *)

ArcsecPerDeg == 3600
Circle == 360 * ArcsecPerDeg
SignSpan == 30 * ArcsecPerDeg

SIGNS == <<"Aries", "Taurus", "Gemini", "Cancer", "Leo", "Virgo", "Libra",
           "Scorpio", "Sagittarius", "Capricorn", "Aquarius", "Pisces">>

\* 5.625 degrees
GATE_SPAN == 20250
\* 0.9375 degrees
LINE_SPAN == GATE_SPAN \div 6

\* one row of GATE_TABLE; start and end are the row's strings, as <<d, m, s>>
Row(g, s, e) == [gate |-> g, start |-> s, end |-> e]

GATE_TABLE ==
    [sign \in {SIGNS[i] : i \in 1..12} |->
       CASE sign = "Aries" ->
              << Row(25, <<0,0,0>>,    <<3,52,30>>),
                 Row(17, <<3,52,30>>,  <<9,30,0>>),
                 Row(21, <<9,30,0>>,   <<15,7,30>>),
                 Row(51, <<15,7,30>>,  <<20,45,0>>),
                 Row(42, <<20,45,0>>,  <<26,22,30>>),
                 Row(3,  <<26,22,30>>, <<30,0,0>>) >>
         [] sign = "Taurus" ->
              << Row(3,  <<0,0,0>>,    <<2,0,0>>),
                 Row(27, <<2,0,0>>,    <<7,37,30>>),
                 Row(24, <<7,37,30>>,  <<13,15,0>>),
                 Row(2,  <<13,15,0>>,  <<18,52,30>>),
                 Row(23, <<18,52,30>>, <<24,30,0>>),
                 Row(8,  <<24,30,0>>,  <<30,0,0>>) >>
         [] sign = "Gemini" ->
              << Row(8,  <<0,0,0>>,    <<0,7,30>>),
                 Row(20, <<0,7,30>>,   <<5,45,0>>),
                 Row(16, <<5,45,0>>,   <<11,22,30>>),
                 Row(35, <<11,22,30>>, <<17,0,0>>),
                 Row(45, <<17,0,0>>,   <<22,37,30>>),
                 Row(12, <<22,37,30>>, <<28,15,0>>),
                 Row(15, <<28,15,0>>,  <<30,0,0>>) >>
         [] sign = "Cancer" ->
              << Row(15, <<0,0,0>>,    <<3,52,30>>),
                 Row(52, <<3,52,30>>,  <<9,30,0>>),
                 Row(39, <<9,30,0>>,   <<15,7,30>>),
                 Row(53, <<15,7,30>>,  <<20,45,0>>),
                 Row(62, <<20,45,0>>,  <<26,22,30>>),
                 Row(56, <<26,22,30>>, <<30,0,0>>) >>
         [] sign = "Leo" ->
              << Row(56, <<0,0,0>>,    <<2,0,0>>),
                 Row(31, <<2,0,0>>,    <<7,37,30>>),
                 Row(33, <<7,37,30>>,  <<13,15,0>>),
                 Row(7,  <<13,15,0>>,  <<18,52,30>>),
                 Row(4,  <<18,52,30>>, <<24,30,0>>),
                 Row(29, <<24,30,0>>,  <<30,0,0>>) >>
         [] sign = "Virgo" ->
              << Row(29, <<0,0,0>>,    <<0,7,30>>),
                 Row(59, <<0,7,30>>,   <<5,45,0>>),
                 Row(40, <<5,45,0>>,   <<11,22,30>>),
                 Row(64, <<11,22,30>>, <<17,0,0>>),
                 Row(47, <<17,0,0>>,   <<22,37,30>>),
                 Row(6,  <<22,37,30>>, <<28,15,0>>),
                 Row(46, <<28,15,0>>,  <<30,0,0>>) >>
         [] sign = "Libra" ->
              << Row(46, <<0,0,0>>,    <<3,52,30>>),
                 Row(18, <<3,52,30>>,  <<9,30,0>>),
                 Row(48, <<9,30,0>>,   <<15,7,30>>),
                 Row(57, <<15,7,30>>,  <<20,45,0>>),
                 Row(32, <<20,45,0>>,  <<26,22,30>>),
                 Row(50, <<26,22,30>>, <<30,0,0>>) >>
         [] sign = "Scorpio" ->
              << Row(50, <<0,0,0>>,    <<2,0,0>>),
                 Row(28, <<2,0,0>>,    <<7,37,30>>),
                 Row(44, <<7,37,30>>,  <<13,15,0>>),
                 Row(1,  <<13,15,0>>,  <<18,52,30>>),
                 Row(43, <<18,52,30>>, <<24,30,0>>),
                 Row(14, <<24,30,0>>,  <<30,0,0>>) >>
         [] sign = "Sagittarius" ->
              << Row(14, <<0,0,0>>,    <<0,7,30>>),
                 Row(34, <<0,7,30>>,   <<5,45,0>>),
                 Row(9,  <<5,45,0>>,   <<11,22,30>>),
                 Row(5,  <<11,22,30>>, <<17,0,0>>),
                 Row(26, <<17,0,0>>,   <<22,37,30>>),
                 Row(11, <<22,37,30>>, <<28,15,0>>),
                 Row(10, <<28,15,0>>,  <<30,0,0>>) >>
         [] sign = "Capricorn" ->
              << Row(10, <<0,0,0>>,    <<3,52,30>>),
                 Row(58, <<3,52,30>>,  <<9,30,0>>),
                 Row(38, <<9,30,0>>,   <<15,7,30>>),
                 Row(54, <<15,7,30>>,  <<20,45,0>>),
                 Row(61, <<20,45,0>>,  <<26,22,30>>),
                 Row(60, <<26,22,30>>, <<30,0,0>>) >>
         [] sign = "Aquarius" ->
              << Row(60, <<0,0,0>>,    <<2,0,0>>),
                 Row(41, <<2,0,0>>,    <<7,37,30>>),
                 Row(19, <<7,37,30>>,  <<13,15,0>>),
                 Row(13, <<13,15,0>>,  <<18,52,30>>),
                 Row(49, <<18,52,30>>, <<24,30,0>>),
                 Row(30, <<24,30,0>>,  <<30,0,0>>) >>
         [] sign = "Pisces" ->
              << Row(30, <<0,0,0>>,    <<0,7,30>>),
                 Row(55, <<0,7,30>>,   <<5,45,0>>),
                 Row(37, <<5,45,0>>,   <<11,22,30>>),
                 Row(63, <<11,22,30>>, <<17,0,0>>),
                 Row(22, <<17,0,0>>,   <<22,37,30>>),
                 Row(36, <<22,37,30>>, <<28,15,0>>),
                 Row(25, <<28,15,0>>,  <<30,0,0>>) >>]

----------------------------------------------------------------------------
(* Longitude classifier *)

\* the seconds dropped
dms_to_deg_no_seconds(dms) == dms[1] * ArcsecPerDeg + dms[2] * 60

\* d + m/60 + s/3600 degrees, in arcseconds
dms_to_deg(dms) == dms[1] * ArcsecPerDeg + dms[2] * 60 + dms[3]

SIGN_INTERVALS ==
    [sign \in DOMAIN GATE_TABLE |->
       [i \in DOMAIN GATE_TABLE[sign] |->
          [gate  |-> GATE_TABLE[sign][i].gate,
           start |-> dms_to_deg(GATE_TABLE[sign][i].start),
           end   |-> dms_to_deg(GATE_TABLE[sign][i].end)]]]

longitude_to_sign_deg(l) ==
    LET lon == l % Circle
        sign_index == lon \div SignSpan
    IN  [sign |-> SIGNS[sign_index + 1], sidx |-> sign_index,
         deg_in_sign |-> lon - sign_index * SignSpan, abs_deg |-> lon]

\* the loop over the sign's intervals: the index of the first one that holds
\* deg_in_sign, 0 when none does (target is None)
find_target_strict(intervals, deg_in_sign) ==
    LET hits == {i \in DOMAIN intervals :
                   intervals[i].start < deg_in_sign /\ deg_in_sign < intervals[i].end}
    IN  IF hits = {} THEN 0 ELSE CHOOSE i \in hits : \A j \in hits : i <= j

find_target(intervals, deg_in_sign) ==
    LET hits == {i \in DOMAIN intervals :
                   intervals[i].start <= deg_in_sign /\ deg_in_sign < intervals[i].end}
    IN  IF hits = {} THEN 0 ELSE CHOOSE i \in hits : \A j \in hits : i <= j

Abs(x) == IF x < 0 THEN -x ELSE x

\* math.isclose(a, b, abs_tol=1e-6): 1e-6 degree is 36/10000 arcsecond; the
\* relative tolerance 1e-9 * max(|a|, |b|) is smaller for |a|, |b| <= 30 degrees
isclose(a, b) == Abs(a - b) * 10000 <= 36

\* global start of the target's gate, taken as if no gate crossed a sign boundary
global_start_in_sign(sidx, target) == sidx * SignSpan + target.start

\* the same with the previous segment's start counted from the current sign
global_start_prev_in_same_sign(sidx, target) ==
    LET prev_sign == SIGNS[((sidx - 1) % 12) + 1]
        prev_last == SIGN_INTERVALS[prev_sign][Len(SIGN_INTERVALS[prev_sign])]
    IN  IF prev_last.gate = target.gate /\ isclose(prev_last.end, SignSpan)
        THEN sidx * SignSpan + prev_last.start
        ELSE sidx * SignSpan + target.start

\* global start of the target's gate, moved to the previous sign's last
\* segment when the gate continues from there
global_start_of(sidx, target) ==
    LET prev_sign == SIGNS[((sidx - 1) % 12) + 1]
        prev_last == SIGN_INTERVALS[prev_sign][Len(SIGN_INTERVALS[prev_sign])]
    IN  IF prev_last.gate = target.gate /\ isclose(prev_last.end, SignSpan)
        THEN (sidx - 1) * SignSpan + prev_last.start
        ELSE sidx * SignSpan + target.start

Max(a, b) == IF a >= b THEN a ELSE b
Min(a, b) == IF a <= b THEN a ELSE b

\* floor((offset + 1e-9) / LINE_SPAN) + 1 clamped to 1..6.  1e-9 degree is
\* 3.6e-6 arcsecond: for a whole number of arcseconds the floor is that of
\* offset / LINE_SPAN
line_of_offset(offset) == Max(1, Min(6, (offset \div LINE_SPAN) + 1))

\* the 4-tuple the function returns, and whether the loop found a segment
gate_line_from_longitude(l) ==
    LET s == longitude_to_sign_deg(l)
        intervals == SIGN_INTERVALS[s.sign]
        found == find_target(intervals, s.deg_in_sign)
        target == IF found = 0 THEN intervals[Len(intervals)] ELSE intervals[found]
        global_start == global_start_of(s.sidx, target)
        offset == (s.abs_deg - global_start) % Circle
    IN  [gate |-> target.gate, line |-> line_of_offset(offset),
         sign |-> s.sign, deg_in_sign |-> s.deg_in_sign, matched |-> found # 0]

----------------------------------------------------------------------------
(* Ephemeris and snapshots *)

\* the bodies of compute_bodies' loop, in its order
BODIES == <<"sun", "moon", "mercury", "venus", "mars", "jupiter", "saturn",
            "uranus", "neptune", "pluto", "earth">>
\* those the ephemeris has a key for (earth is derived from the sun)
SkyBodies == {"sun", "moon", "mercury", "venus", "mars", "jupiter", "saturn",
              "uranus", "neptune", "pluto"}

\* longitudes (whole degrees) the ephemeris may return, one inside each of the
\* gates 20 34 10 57 21 45 12 22 4 63 6 59 3 60 26 44 25 51 1 8
EphPool == <<63, 243, 271, 198, 12, 79, 85, 349, 141, 344, 175, 153,
             29, 299, 259, 220, 361, 18, 226, 57>>
EphLons == {EphPool[i] * ArcsecPerDeg : i \in 1..Min(PoolSize, Len(EphPool))}

\* the skies tried: the sun and the moon anywhere in the pool, the planets in
\* conjunction with the moon
SkyOf(sunLon, moonLon) ==
    [body \in SkyBodies |-> IF body = "sun" THEN sunLon ELSE moonLon]

\* the longitude of body in the sky of one instant
ecliptic_longitude_deg(t, body) ==
    IF body = "earth"
    THEN (t["sun"] + 180 * ArcsecPerDeg) % Circle
    ELSE t[body] % Circle

\* round(lon, 6) moves lon by less than 5e-7 degree, far under one arcsecond
compute_bodies(t) ==
    [body \in {BODIES[i] : i \in DOMAIN BODIES} |->
       LET lon == ecliptic_longitude_deg(t, body)
           gl == gate_line_from_longitude(lon)
       IN  [lon |-> lon, sign |-> gl.sign, deg_in_sign |-> gl.deg_in_sign,
            gate |-> gl.gate, line |-> gl.line]]

----------------------------------------------------------------------------
(* Center/channel classifier *)

Ch(i, a, b, c1, c2) == [id |-> i, gates |-> <<a, b>>, centers |-> <<c1, c2>>]

CHANNELS_AS_WRITTEN == <<
    Ch("1-8", 1, 8, "G", "Throat"),
    Ch("2-14", 2, 14, "G", "Sacral"),
    Ch("3-60", 3, 60, "Sacral", "Root"),
    Ch("4-63", 4, 63, "Ajna", "Head"),
    Ch("5-15", 5, 15, "Sacral", "G"),
    Ch("6-59", 6, 59, "Solar Plexus", "Sacral"),
    Ch("7-31", 7, 31, "G", "Throat"),
    Ch("9-52", 9, 52, "Sacral", "Root"),
    Ch("10-20", 10, 20, "G", "Throat"),
    Ch("10-34", 10, 34, "G", "Sacral"),
    Ch("10-57", 10, 57, "G", "Spleen"),
    Ch("11-56", 11, 56, "Ajna", "Throat"),
    Ch("12-22", 12, 22, "Throat", "Solar Plexus"),
    Ch("13-33", 13, 33, "G", "Throat"),
    Ch("16-48", 16, 48, "Throat", "Spleen"),
    Ch("17-62", 17, 62, "Ajna", "Throat"),
    Ch("18-58", 18, 58, "Spleen", "Root"),
    Ch("19-49", 19, 49, "Root", "Solar Plexus"),
    Ch("20-34", 20, 34, "Throat", "Sacral"),
    Ch("20-57", 20, 57, "Throat", "Spleen"),
    Ch("21-45", 21, 45, "Heart", "Throat"),
    Ch("23-43", 23, 43, "Ajna", "Throat"),
    Ch("24-61", 24, 61, "Ajna", "Head"),
    Ch("25-51", 25, 51, "G", "Heart"),
    Ch("26-44", 26, 44, "Heart", "Spleen"),
    Ch("27-50", 27, 50, "Sacral", "Spleen"),
    Ch("28-38", 28, 38, "Spleen", "Root"),
    Ch("29-46", 29, 46, "Sacral", "G"),
    Ch("30-41", 30, 41, "Solar Plexus", "Root"),
    Ch("32-54", 32, 54, "Spleen", "Root"),
    Ch("34-57", 34, 57, "Sacral", "Spleen"),
    Ch("35-36", 35, 36, "Throat", "Solar Plexus"),
    Ch("37-40", 37, 40, "Solar Plexus", "Heart"),
    Ch("39-55", 39, 55, "Root", "Solar Plexus"),
    Ch("42-53", 42, 53, "Sacral", "Root"),
    Ch("47-64", 47, 64, "Ajna", "Head") >>

\* the table as CHANNELS_AS_WRITTEN gives it, with "20-57" entered twice
CHANNELS_DUPLICATED ==
    [i \in 1..36 |-> IF i = 19 THEN Ch("20-57", 20, 57, "Throat", "Spleen")
                     ELSE CHANNELS_AS_WRITTEN[i]]

CHANNELS == CHANNELS_AS_WRITTEN

Range(q) == {q[i] : i \in DOMAIN q}

\* the nine centers, in the order sorted() gives their names
CenterNames == <<"Ajna", "G", "Head", "Heart", "Root", "Sacral",
                 "Solar Plexus", "Spleen", "Throat">>

\* the gates of every body of both snapshots
active_gates(n, d) ==
    {n[b].gate : b \in DOMAIN n} \cup {d[b].gate : b \in DOMAIN d}

channel_defined_either(ch, active) ==
    ch.gates[1] \in active \/ ch.gates[2] \in active

channel_defined(ch, active) ==
    ch.gates[1] \in active /\ ch.gates[2] \in active

Motors == {"Heart", "Solar Plexus", "Sacral", "Root"}

throat_any_channel(defined_channels) ==
    \E i \in DOMAIN CHANNELS :
        /\ CHANNELS[i].id \in Range(defined_channels)
        /\ "Throat" \in Range(CHANNELS[i].centers)

throat_has_motor(defined_channels) ==
    \E i \in DOMAIN CHANNELS :
        /\ CHANNELS[i].id \in Range(defined_channels)
        /\ "Throat" \in Range(CHANNELS[i].centers)
        /\ Motors \cap Range(CHANNELS[i].centers) # {}

\* the same without the test of the Sacral center
hd_type_no_sacral_test(has, defined_channels) ==
    IF throat_has_motor(defined_channels)
    THEN <<"Manifestor", "Inform before acting">>
    ELSE <<"Projector", "Wait for the invitation">>

\* type and strategy when some center is defined
hd_type(has, defined_channels) ==
    IF has["Sacral"]
    THEN IF throat_has_motor(defined_channels)
         THEN <<"Manifesting Generator", "Wait to respond, then inform">>
         ELSE <<"Generator", "Wait to respond">>
    ELSE IF throat_has_motor(defined_channels)
         THEN <<"Manifestor", "Inform before acting">>
         ELSE <<"Projector", "Wait for the invitation">>

hd_authority_sacral_first(has) ==
    IF has["Sacral"] THEN "Sacral"
    ELSE IF has["Solar Plexus"] THEN "Emotional"
    ELSE IF has["Spleen"] THEN "Splenic"
    ELSE IF has["Heart"] THEN "Ego"
    ELSE IF has["G"] /\ has["Throat"] THEN "Self-Projected"
    ELSE "Environmental"

\* authority when some center is defined
hd_authority(has) ==
    IF has["Solar Plexus"] THEN "Emotional"
    ELSE IF has["Sacral"] THEN "Sacral"
    ELSE IF has["Spleen"] THEN "Splenic"
    ELSE IF has["Heart"] THEN "Ego"
    ELSE IF has["G"] /\ has["Throat"] THEN "Self-Projected"
    ELSE "Environmental"

hd_classify_chain_only(centers_list, has, defined_channels) ==
    IF centers_list = <<>>
    THEN <<"Reflector", "Wait a lunar cycle (~28 days)", hd_authority(has)>>
    ELSE hd_type(has, defined_channels) \o <<hd_authority(has)>>

\* <<hd_type, strategy, authority>>
hd_classify(centers_list, has, defined_channels) ==
    IF centers_list = <<>>
    THEN <<"Reflector", "Wait a lunar cycle (~28 days)", "Lunar">>
    ELSE hd_type(has, defined_channels) \o <<hd_authority(has)>>

gates_of(src, side) ==
    [i \in DOMAIN BODIES |->
       LET rec == src[BODIES[i]]
       IN  [side |-> side, planet |-> BODIES[i], gate |-> rec.gate,
            line |-> rec.line, sign |-> rec.sign, lon |-> rec.lon]]

RECURSIVE MapIds(_)
MapIds(q) == IF q = <<>> THEN <<>> ELSE <<Head(q).id>> \o MapIds(Tail(q))

compute_hd(n, d) ==
    LET active == active_gates(n, d)
        IsDefined(ch) == channel_defined(ch, active)
        defined == SelectSeq(CHANNELS, IsDefined)
        defined_channels == MapIds(defined)
        defined_centers == UNION {Range(ch.centers) : ch \in Range(defined)}
        InDefined(c) == c \in defined_centers
        centers_list == SelectSeq(CenterNames, InDefined)
        has == [c \in Range(CenterNames) |-> c \in defined_centers]
        tsa == hd_classify(centers_list, has, defined_channels)
    IN  [gates |-> gates_of(n, "natal") \o gates_of(d, "design"),
         channels |-> defined_channels,
         definedCenters |-> centers_list,
         type |-> tsa[1], strategy |-> tsa[2], authority |-> tsa[3]]

NoSnapshot == [b \in {} |-> 0]
NoHD == [gates |-> <<>>, channels |-> <<>>, definedCenters |-> <<>>,
         type |-> "", strategy |-> "", authority |-> ""]

HDIdle == sky = NoSnapshot /\ natal = NoSnapshot /\ design = NoSnapshot /\ hd = NoHD

\* a request whose two instants have these skies
InitHD ==
    /\ pc = "request"
    /\ \E ns \in EphLons, nm \in EphLons, ds \in EphLons, dm \in EphLons :
           sky = [natal |-> SkyOf(ns, nm), design |-> SkyOf(ds, dm)]
    /\ natal = NoSnapshot /\ design = NoSnapshot /\ hd = NoHD

ComputeBodiesNatal ==
    /\ pc = "request"
    /\ natal' = compute_bodies(sky["natal"])
    /\ pc' = "natal"
    /\ UNCHANGED <<sky, design, hd>>

ComputeBodiesDesign ==
    /\ pc = "natal"
    /\ design' = compute_bodies(sky["design"])
    /\ pc' = "design"
    /\ UNCHANGED <<sky, natal, hd>>

ComputeHD ==
    /\ pc = "design"
    /\ hd' = compute_hd(natal, design)
    /\ pc' = "hd"
    /\ UNCHANGED <<sky, natal, design>>

----------------------------------------------------------------------------
(* Design-time resolvers *)

SecondsPerDay == 86400
\* timedelta(days=88), the default of design_time_from_days
DesignDays == 88
\* timedelta(days=150), half the search window
WindowDays == 150
\* range(50)
Iterations == 50
\* target_arc = -88.0
target_arc == -88 * ArcsecPerDeg

None == "None"

\* natal instants, in seconds from the model's epoch: two months and a second
\* apart, so that they fall in every season and off the whole minutes
BirthStride == 61 * SecondsPerDay + 1
BirthInstants == {k * BirthStride : k \in 0..MaxBirth}

\* the sun stands at Capricorn 10 degrees at the epoch and moves one arcsecond
\* every pace seconds, without ever turning back
SunAtEpoch == 280 * ArcsecPerDeg
MeanPace == SecondsPerDay \div ArcsecPerDeg
SunPaces == (MeanPace - MaxDrift)..(MeanPace + MaxDrift)

\* ecliptic_longitude_deg(TS.utc(dt...), "sun") for the instant dt
sun_longitude(dt, pace) == (SunAtEpoch + (dt \div pace)) % Circle

\* the offset added instead of subtracted
design_time_from_days_later(birth, days) == birth + days * SecondsPerDay

design_time_from_days(birth, days) == birth - days * SecondsPerDay

\* timedelta / 2: rounded to the nearest step of the clock, halves to even
HalfOf(d) ==
    LET q == d \div 2
    IN  IF d % 2 = 0 THEN q ELSE IF q % 2 = 0 THEN q ELSE q + 1

arc_err(dt, s0, pace) ==
    LET sun == sun_longitude(dt, pace)
        diff == ((sun - s0 + 540 * ArcsecPerDeg) % Circle) - 180 * ArcsecPerDeg
    IN  diff - target_arc

\* designMode of the request: the default, the solar arc, and any other value
DesignModes == {"days", "solarArc", "fixed"}

DesignIdle ==
    /\ birth_utc = 0 /\ design_mode = "" /\ sunPace = MeanPace
    /\ sun0 = 0 /\ lo = 0 /\ hi = 0 /\ iter = 0 /\ dt_design = None

InitDesign ==
    /\ pc = "request"
    /\ birth_utc \in BirthInstants
    /\ design_mode \in DesignModes
    /\ sunPace \in SunPaces
    /\ sun0 = 0 /\ lo = 0 /\ hi = 0 /\ iter = 0 /\ dt_design = None

\* compute_profile, designMode other than "solarArc"
DesignFromDays ==
    /\ pc = "request" /\ design_mode # "solarArc"
    /\ dt_design' = design_time_from_days(birth_utc, DesignDays)
    /\ pc' = "resolved"
    /\ UNCHANGED <<birth_utc, design_mode, sunPace, sun0, lo, hi, iter>>

\* design_time_from_solar_arc up to its loop
SolarArcStart ==
    /\ pc = "request" /\ design_mode = "solarArc"
    /\ sun0' = sun_longitude(birth_utc, sunPace)
    /\ lo' = birth_utc - WindowDays * SecondsPerDay
    /\ hi' = birth_utc + WindowDays * SecondsPerDay
    /\ iter' = 0
    /\ pc' = "bisect"
    /\ UNCHANGED <<birth_utc, design_mode, sunPace, dt_design>>

\* one iteration of the loop
BisectStep ==
    /\ pc = "bisect" /\ iter < Iterations
    /\ LET mid == lo + HalfOf(hi - lo)
       IN  IF arc_err(mid, sun0, sunPace) > 0
           THEN lo' = mid /\ hi' = hi
           ELSE hi' = mid /\ lo' = lo
    /\ iter' = iter + 1
    /\ UNCHANGED <<pc, birth_utc, design_mode, sunPace, sun0, dt_design>>

\* return lo
SolarArcReturn ==
    /\ pc = "bisect" /\ iter = Iterations
    /\ dt_design' = lo
    /\ pc' = "resolved"
    /\ UNCHANGED <<birth_utc, design_mode, sunPace, sun0, lo, hi, iter>>

----------------------------------------------------------------------------
(* The /compute-profile handler *)

Sph(s, p, m) == [sphere |-> s, planet |-> p, mode |-> m]

\* the spheres of each sequence, in the order the dict lists them
SPHERES ==
    [activation |-> << Sph("LifesWork", "sun", "natal"),
                       Sph("Evolution", "earth", "natal"),
                       Sph("Radiance", "sun", "design"),
                       Sph("Purpose", "earth", "design") >>,
     venus |-> << Sph("Attraction", "moon", "design"),
                  Sph("IQ", "venus", "natal"),
                  Sph("EQ", "mars", "natal"),
                  Sph("SQ", "venus", "design"),
                  Sph("Core", "mars", "design") >>,
     pearl |-> << Sph("Culture", "jupiter", "design"),
                  Sph("Pearl", "jupiter", "natal"),
                  Sph("Vocation", "mars", "design"),
                  Sph("Brand", "sun", "natal") >>]

sphere_rec(n, d, mp) ==
    LET src == IF mp.mode = "natal" THEN n ELSE d
        rec == src[mp.planet]
    IN  [sphere |-> mp.sphere, planet |-> mp.planet, mode |-> mp.mode,
         gk |-> rec.gate, line |-> rec.line, sign |-> rec.sign, lon |-> rec.lon]

build_gene_keys_profile(n, d) ==
    [seq \in DOMAIN SPHERES |->
       [i \in DOMAIN SPHERES[seq] |-> sphere_rec(n, d, SPHERES[seq][i])]]

\* the moon stands at Cancer 10 degrees at the epoch and moves 12 degrees a
\* day; the planets are in conjunction with it, as in SkyOf
MoonAtEpoch == 100 * ArcsecPerDeg
MoonPace == SecondsPerDay \div (12 * ArcsecPerDeg)
moon_longitude(dt) == (MoonAtEpoch + (dt \div MoonPace)) % Circle

\* the sky of the instant dt: TS.utc(dt...) as the ephemeris sees it
SkyAt(dt, pace) == SkyOf(sun_longitude(dt, pace), moon_longitude(dt))

Sides == {"natal", "design"}
BodySet == {BODIES[i] : i \in DOMAIN BODIES}

\* the ephemeris fails nowhere, for one body at one of the two instants, or
\* for a late body of the natal instant and an early one of the design instant
FailurePlans ==
    {{}} \cup {{<<s, b>>} : s \in Sides, b \in BodySet}
         \cup {{<<"natal", "pluto">>, <<"design", "moon">>}}

ProfileBirths == {k * BirthStride : k \in 0..MaxProfileBirth}

NoExc == [type |-> "", detail |-> <<>>]
NoProfile == [seq \in {} |-> <<>>]
NoResponse == [status |-> 0, body |-> [k \in {} |-> 0]]

\* what the provider raises for a lookup: the handler reports the name of its
\* type and its text, here the lookup that failed
EphemerisError(side, body) == [type |-> "EphemerisError", detail |-> <<side, body>>]

ProfileIdle ==
    /\ payload = [birthDate |-> FALSE, birthPlace |-> FALSE, includeHD |-> FALSE]
    /\ failing = {} /\ body_i = 0 /\ out = NoSnapshot
    /\ exc = NoExc /\ profile = NoProfile /\ response = NoResponse

\* a request has arrived; parsing its date and finding its place succeed
InitProfile ==
    /\ pc = "received"
    /\ payload \in [birthDate : BOOLEAN, birthPlace : BOOLEAN, includeHD : BOOLEAN]
    /\ failing \in FailurePlans
    /\ birth_utc \in ProfileBirths
    /\ design_mode \in DesignModes
    /\ sunPace = MeanPace
    /\ sun0 = 0 /\ lo = 0 /\ hi = 0 /\ iter = 0 /\ dt_design = None
    /\ body_i = 0 /\ out = NoSnapshot
    /\ exc = NoExc /\ profile = NoProfile /\ response = NoResponse

\* if not birth_date or not birth_place: answer 400
RejectRequest ==
    /\ pc = "received"
    /\ ~(payload.birthDate /\ payload.birthPlace)
    /\ response' = [status |-> 400,
                    body |-> [error |-> "birthDate and birthPlace are required"]]
    /\ pc' = "responded"
    /\ UNCHANGED <<payload, failing, body_i, out, exc, profile>>

AcceptRequest ==
    /\ pc = "received"
    /\ payload.birthDate /\ payload.birthPlace
    /\ pc' = "request"
    /\ UNCHANGED profileVars

\* design_time_from_solar_arc: the lookup of sun0 raises
SolarArcRaise ==
    /\ pc = "request" /\ design_mode = "solarArc"
    /\ <<"natal", "sun">> \in failing
    /\ exc' = EphemerisError("natal", "sun")
    /\ pc' = "raised"
    /\ UNCHANGED <<payload, failing, body_i, out, profile, response>>

\* the instant compute_bodies is called with, and where the call is made
InstantOf(side) == IF side = "natal" THEN birth_utc ELSE dt_design
CalledAt(side) == IF side = "natal" THEN "resolved" ELSE "natal"

\* one turn of compute_bodies' loop whose lookup succeeds
LookupBody(side) ==
    /\ pc = CalledAt(side) /\ body_i < Len(BODIES)
    /\ LET body == BODIES[body_i + 1]
           t == SkyAt(InstantOf(side), sunPace)
       IN  /\ <<side, body>> \notin failing
           /\ out' = (body :> compute_bodies(t)[body]) @@ out
    /\ body_i' = body_i + 1
    /\ UNCHANGED <<pc, hdVars, payload, failing, exc, profile, response>>

\* the same when the failing lookup is passed over and the loop goes on
SkipBody(side) ==
    /\ pc = CalledAt(side) /\ body_i < Len(BODIES)
    /\ <<side, BODIES[body_i + 1]>> \in failing
    /\ body_i' = body_i + 1
    /\ UNCHANGED <<pc, hdVars, payload, failing, out, exc, profile, response>>

\* one turn whose lookup raises: the exception leaves compute_bodies, and out
\* with it
RaiseBody(side) ==
    /\ pc = CalledAt(side) /\ body_i < Len(BODIES)
    /\ <<side, BODIES[body_i + 1]>> \in failing
    /\ exc' = EphemerisError(side, BODIES[body_i + 1])
    /\ out' = NoSnapshot /\ body_i' = 0
    /\ pc' = "raised"
    /\ UNCHANGED <<hdVars, payload, failing, profile, response>>

\* return out
ReturnBodies(side) ==
    /\ pc = CalledAt(side) /\ body_i = Len(BODIES)
    /\ IF side = "natal"
       THEN natal' = out /\ design' = design
       ELSE design' = out /\ natal' = natal
    /\ pc' = side
    /\ out' = NoSnapshot /\ body_i' = 0
    /\ UNCHANGED <<sky, hd, payload, failing, exc, profile, response>>

BuildProfile ==
    /\ pc = "design"
    /\ profile' = build_gene_keys_profile(natal, design)
    /\ pc' = "profile"
    /\ UNCHANGED <<hdVars, payload, failing, body_i, out, exc, response>>

\* hd = compute_hd(natal, design) if include_hd else None
ProfileHD ==
    /\ pc = "profile"
    /\ hd' = IF payload.includeHD THEN compute_hd(natal, design) ELSE NoHD
    /\ pc' = "assets"
    /\ UNCHANGED <<sky, natal, design, profileVars>>

\* render_svg writes the drawing and returns its two addresses, the second
\* None when the drawing cannot be converted
render_svg(prof, converted) ==
    [svg_url |-> "/assets/profile.svg",
     png_url |-> IF converted THEN "/assets/profile.png" ELSE None]

\* the result of a request that went through
Respond ==
    /\ pc = "assets"
    /\ \E converted \in BOOLEAN :
         LET assets == render_svg(profile, converted)
         IN  response' =
               [status |-> 200,
                body |-> [meta |-> [designMode |-> design_mode,
                                    includeHD |-> payload.includeHD,
                                    birth |-> birth_utc, design |-> dt_design],
                          bodies |-> [natal |-> natal, design |-> design],
                          geneKeys |-> profile,
                          humanDesign |-> hd,
                          assets |-> [profileSVG |-> assets.svg_url,
                                      profilePNG |-> assets.png_url]]]
    /\ pc' = "responded"
    /\ UNCHANGED <<payload, failing, body_i, out, exc, profile>>

\* except Exception as e: answer 500 with the exception's type and text
HandleException ==
    /\ pc = "raised"
    /\ response' = [status |-> 500, body |-> [error |-> exc.type, detail |-> exc.detail]]
    /\ pc' = "responded"
    /\ UNCHANGED <<payload, failing, body_i, out, exc, profile>>

----------------------------------------------------------------------------
(* The classifier applied along the wheel *)

RECURSIVE GCD(_, _)
GCD(a, b) == IF b = 0 THEN a ELSE GCD(b, a % b)

\* every start and end of GATE_TABLE is a multiple of 7'30" and every line
\* boundary one of LINE_SPAN from a start: all lie on this grid (225")
SampleStep == GCD(LINE_SPAN, 7 * 60 + 30)

\* the sample after p: the grid points, and MaxOff arcseconds on each side
NextSample(p) ==
    LET o == p % SampleStep
    IN  IF o < MaxOff \/ o >= SampleStep - MaxOff - 1 THEN p + 1
        ELSE p + (SampleStep - MaxOff - o)

\* one turn of the wheel and one more gate, to close the gate that wraps at 0
EndPos == Circle + GATE_SPAN

\* seam n is the boundary at which sign n starts (sign 0 starts at 360 = 0)
LastOf(n) == LET iv == SIGN_INTERVALS[SIGNS[((n - 1) % 12) + 1]] IN iv[Len(iv)]
FirstOf(n) == SIGN_INTERVALS[SIGNS[n + 1]][1]
Seams == {n \in 0..11 : LastOf(n).gate = FirstOf(n).gate /\ LastOf(n).end = SignSpan}
\* the two segments of the gate that straddles seam n, as one region
SeamFrom(n) == (n * SignSpan - (SignSpan - LastOf(n).start)) % Circle
SeamLen(n) == (SignSpan - LastOf(n).start) + FirstOf(n).end
InSeam(l, n) == ((l - SeamFrom(n)) % Circle) < SeamLen(n)
SeamOf(l) == IF \E n \in Seams : InSeam(l, n)
             THEN CHOOSE n \in Seams : InSeam(l, n) ELSE -1

NoResult == [gate |-> 0, line |-> 0, sign |-> "", deg_in_sign |-> 0, matched |-> FALSE]

WheelIdle ==
    /\ pos = -1 /\ lon_deg = 0 /\ res = NoResult
    /\ trail = <<>> /\ arcFrom = -1 /\ arcs = {}

InitWheel == pc = "sweep" /\ WheelIdle /\ HDIdle /\ DesignIdle /\ ProfileIdle

Classify ==
    /\ pc = "sweep"
    /\ LET p == NextSample(pos)
           l == p % Circle
           r == gate_line_from_longitude(l)
           changed == pos >= 0 /\ <<r.gate, r.line>> # <<res.gate, res.line>>
       IN  /\ pos' = p
           /\ lon_deg' = l
           /\ res' = r
           /\ trail' = IF pos >= 0 /\ SeamOf(l) # -1 /\ SeamOf(l) = SeamOf(lon_deg)
                       THEN Append(trail, [lon |-> lon_deg, gate |-> res.gate,
                                           line |-> res.line])
                       ELSE <<>>
           /\ arcs' = IF changed /\ arcFrom >= 0
                      THEN arcs \cup {[gate |-> res.gate, line |-> res.line,
                                       from |-> arcFrom % Circle,
                                       width |-> p - arcFrom]}
                      ELSE arcs
           /\ arcFrom' = IF changed THEN p ELSE arcFrom
           /\ pc' = IF p >= EndPos THEN "done" ELSE "sweep"
    /\ UNCHANGED <<hdVars, designVars, profileVars>>

NextWheel == Classify

SpecWheel == InitWheel /\ [][NextWheel]_vars

SkyInit == InitHD /\ WheelIdle /\ DesignIdle /\ ProfileIdle

NextHD ==
    \/ ComputeBodiesNatal /\ UNCHANGED <<wheelVars, designVars, profileVars>>
    \/ ComputeBodiesDesign /\ UNCHANGED <<wheelVars, designVars, profileVars>>
    \/ ComputeHD /\ UNCHANGED <<wheelVars, designVars, profileVars>>

SpecHD == SkyInit /\ [][NextHD]_vars

BirthInit == InitDesign /\ WheelIdle /\ HDIdle /\ ProfileIdle

NextDesign ==
    \/ DesignFromDays /\ UNCHANGED <<wheelVars, hdVars, profileVars>>
    \/ SolarArcStart /\ UNCHANGED <<wheelVars, hdVars, profileVars>>
    \/ BisectStep /\ UNCHANGED <<wheelVars, hdVars, profileVars>>
    \/ SolarArcReturn /\ UNCHANGED <<wheelVars, hdVars, profileVars>>

SpecDesign == BirthInit /\ [][NextDesign]_vars

RequestInit == InitProfile /\ WheelIdle /\ HDIdle

NextProfile ==
    \/ RejectRequest /\ UNCHANGED <<wheelVars, hdVars, designVars>>
    \/ AcceptRequest /\ UNCHANGED <<wheelVars, hdVars, designVars>>
    \/ DesignFromDays /\ UNCHANGED <<wheelVars, hdVars, profileVars>>
    \/ SolarArcStart /\ <<"natal", "sun">> \notin failing
           /\ UNCHANGED <<wheelVars, hdVars, profileVars>>
    \/ SolarArcRaise /\ UNCHANGED <<wheelVars, hdVars, designVars>>
    \/ BisectStep /\ UNCHANGED <<wheelVars, hdVars, profileVars>>
    \/ SolarArcReturn /\ UNCHANGED <<wheelVars, hdVars, profileVars>>
    \/ LookupBody("natal") /\ UNCHANGED <<wheelVars, designVars>>
    \/ RaiseBody("natal") /\ UNCHANGED <<wheelVars, designVars>>
    \/ ReturnBodies("natal") /\ UNCHANGED <<wheelVars, designVars>>
    \/ LookupBody("design") /\ UNCHANGED <<wheelVars, designVars>>
    \/ RaiseBody("design") /\ UNCHANGED <<wheelVars, designVars>>
    \/ ReturnBodies("design") /\ UNCHANGED <<wheelVars, designVars>>
    \/ BuildProfile /\ UNCHANGED <<wheelVars, designVars>>
    \/ ProfileHD /\ UNCHANGED <<wheelVars, designVars>>
    \/ Respond /\ UNCHANGED <<wheelVars, hdVars, designVars>>
    \/ HandleException /\ UNCHANGED <<wheelVars, hdVars, designVars>>

SpecProfile == RequestInit /\ [][NextProfile]_vars


----------------------------------------------------------------------------
(* Claims about the longitude classifier, under SpecWheel *)

Classified == pos >= 0

\* C2 as stated: gate_line_from_longitude(0.0), Aries 0 degrees, is gate 25
\* line 1
C2_AriesZeroIsLine1 ==
    (Classified /\ lon_deg = 0) => (res.gate = 25 /\ res.line = 1)

\* C2 amended: gate_line_from_longitude(0.0) is gate 25 line 2, since gate 25
\* starts at Pisces 28 deg 15' and Aries 0 lies 1 deg 45' into it
C2_AriesZeroIsLine2 ==
    (Classified /\ lon_deg = 0) => (res.gate = 25 /\ res.line = 2 /\ res.sign = "Aries")

C2_Witness == Classified /\ lon_deg = 0 /\ res.gate = 25

\* the boundary of seam n and the part of its region at or after the boundary
SeamAt(n) == (n * SignSpan) % Circle
AfterSeam(l, n) == ((l - SeamAt(n)) % Circle) < FirstOf(n).end

\* C4: at every sign boundary a gate straddles (all 12, the wrap at 360/0
\* included), every earlier longitude of the gate's two segments has the same
\* gate and a line no greater than a later one's; the lines just below and at
\* the boundary are equal or consecutive; the line is never 1 after the seam
C4_BoundaryContinuity ==
    /\ Seams = 0..11
    /\ (Classified /\ SeamOf(lon_deg) # -1) =>
         LET n == SeamOf(lon_deg) IN
         /\ res.gate = FirstOf(n).gate
         /\ \A i \in DOMAIN trail :
                trail[i].gate = res.gate /\ trail[i].line <= res.line
         /\ (lon_deg = SeamAt(n) /\ trail # <<>>) =>
                /\ trail[Len(trail)].lon = (SeamAt(n) - 1) % Circle
                /\ res.line - trail[Len(trail)].line \in {0, 1}
         /\ AfterSeam(lon_deg, n) => res.line # 1

\* the wrap at 360/0 is crossed with the Pisces part of gate 25 behind
C4_Witness ==
    /\ Classified /\ pos = Circle /\ lon_deg = 0
    /\ trail # <<>> /\ trail[1].lon = SeamFrom(0) /\ res.line = 2

ArcOf(g, l) == {a \in arcs : a.gate = g /\ a.line = l}

\* C5: each of the 64 x 6 (gate, line) pairs is the image of exactly one arc of
\* width 360/384 = 0.9375 degrees; the 384 arcs are disjoint and cover the
\* circle; within a gate lines 1..6 follow each other by increasing longitude
C5_Tiling ==
    /\ \A a \in arcs : a.width = LINE_SPAN /\ LINE_SPAN * 384 = Circle
    /\ pc = "done" =>
         /\ Cardinality(arcs) = 64 * 6
         /\ \A g \in 1..64 : \A l \in 1..6 : Cardinality(ArcOf(g, l)) = 1
         /\ Cardinality({a.from : a \in arcs}) = 64 * 6
         /\ \A a \in arcs : \A b \in arcs :
                (a.from - b.from) % LINE_SPAN = 0
         /\ \A a \in arcs : a.line < 6 =>
                \E b \in ArcOf(a.gate, a.line + 1) :
                    b.from = (a.from + LINE_SPAN) % Circle

\* the wheel has been swept, with an arc that wraps through 0 and the arc of
\* a gate that crosses a sign boundary among the recorded ones
C5_Witness ==
    /\ pc = "done"
    /\ \E a \in arcs : a.from + a.width > Circle
    /\ \E a \in arcs : a.gate = 3 /\ a.from < SignSpan /\ a.from + a.width > SignSpan

\* C6: every longitude of [0, 360) falls in a segment of its sign (the
\* fallback to the last segment is not taken), with a gate in 1..64, a line in
\* 1..6, the sign of index floor(longitude / 30) and a degree in sign in [0, 30)
C6_RangeAndTotality ==
    Classified =>
        /\ lon_deg \in 0..(Circle - 1)
        /\ res.matched
        /\ res.gate \in 1..64
        /\ res.line \in 1..6
        /\ res.sign = SIGNS[(lon_deg \div SignSpan) + 1]
        /\ res.deg_in_sign = lon_deg - (lon_deg \div SignSpan) * SignSpan
        /\ res.deg_in_sign \in 0..(SignSpan - 1)

\* the last arcsecond of Pisces, and the first of a sign, were classified
C6_Witness ==
    /\ Classified /\ lon_deg = Circle - 1 /\ res.sign = "Pisces"
    /\ res.deg_in_sign = SignSpan - 1 /\ res.matched

----------------------------------------------------------------------------
(* Claims about the center/channel classifier, under SpecHD *)

HDDone == pc = "hd"
Defined == Range(hd.definedCenters)
SomeCenter == hd.definedCenters # <<>>

C7_AuthorityChain ==
    (HDDone /\ SomeCenter) =>
        /\ "Solar Plexus" \in Defined => hd.authority = "Emotional"
        /\ ("Solar Plexus" \notin Defined /\ "Sacral" \in Defined) =>
               hd.authority = "Sacral"
        /\ ({"Solar Plexus", "Sacral"} \cap Defined = {} /\ "Spleen" \in Defined) =>
               hd.authority = "Splenic"
        /\ ({"Solar Plexus", "Sacral", "Spleen"} \cap Defined = {}
              /\ "Heart" \in Defined) => hd.authority = "Ego"
        /\ ({"Solar Plexus", "Sacral", "Spleen", "Heart"} \cap Defined = {}
              /\ {"G", "Throat"} \subseteq Defined) => hd.authority = "Self-Projected"
        /\ ({"Solar Plexus", "Sacral", "Spleen", "Heart"} \cap Defined = {}
              /\ ~({"G", "Throat"} \subseteq Defined)) => hd.authority = "Environmental"

\* Solar Plexus wins over Sacral and Spleen, all three defined
C7_Witness ==
    /\ HDDone /\ {"Solar Plexus", "Sacral", "Spleen"} \subseteq Defined
    /\ hd.authority = "Emotional"

\* some returned channel joins Throat to a motor center
ThroatToMotor ==
    \E i \in DOMAIN CHANNELS :
        /\ CHANNELS[i].id \in Range(hd.channels)
        /\ \E m \in {"Heart", "Solar Plexus", "Sacral", "Root"} :
               Range(CHANNELS[i].centers) = {"Throat", m}

\* C8: with a center defined, type is Manifesting Generator when Sacral is
\* defined and a returned channel joins Throat to a motor center, Generator when
\* Sacral is defined and none does, Manifestor when Sacral is undefined and one
\* does, Projector otherwise; the strategy is the one of the type
C8_TypeRule ==
    (HDDone /\ SomeCenter) =>
        /\ hd.type = (IF "Sacral" \in Defined
                      THEN IF ThroatToMotor THEN "Manifesting Generator" ELSE "Generator"
                      ELSE IF ThroatToMotor THEN "Manifestor" ELSE "Projector")
        /\ hd.strategy =
             (CASE hd.type = "Manifesting Generator" -> "Wait to respond, then inform"
                [] hd.type = "Generator" -> "Wait to respond"
                [] hd.type = "Manifestor" -> "Inform before acting"
                [] hd.type = "Projector" -> "Wait for the invitation"
                [] OTHER -> "none")

\* Sacral and Throat both defined, yet no channel from Throat to a motor
C8_Witness ==
    /\ HDDone /\ {"Sacral", "Throat"} \subseteq Defined
    /\ ~ThroatToMotor /\ hd.type = "Generator"

GatesOf(snapshot) == {snapshot[b].gate : b \in DOMAIN snapshot}

\* C9: a channel is returned iff both its gates are among the gates of the
\* bodies of the natal and design snapshots taken together, from whichever
\* snapshot each comes; a center is defined iff a returned channel has it
C9_ChannelsAndCenters ==
    HDDone =>
        LET active == GatesOf(natal) \cup GatesOf(design) IN
        /\ {hd.gates[i].gate : i \in DOMAIN hd.gates} = active
        /\ \A i \in DOMAIN CHANNELS :
               CHANNELS[i].id \in Range(hd.channels)
                 <=> (CHANNELS[i].gates[1] \in active /\ CHANNELS[i].gates[2] \in active)
        /\ \A c \in Range(CenterNames) :
               c \in Defined
                 <=> \E i \in DOMAIN CHANNELS :
                        /\ CHANNELS[i].id \in Range(hd.channels)
                        /\ c \in Range(CHANNELS[i].centers)
        /\ Defined \subseteq Range(CenterNames)

\* a channel with one gate only in the natal and the other only in the design
\* snapshot, next to a gate that is active while its channel is not defined
C9_Witness ==
    /\ HDDone
    /\ \E i \in DOMAIN CHANNELS :
        /\ CHANNELS[i].id \in Range(hd.channels)
        /\ CHANNELS[i].gates[1] \in GatesOf(natal) \ GatesOf(design)
        /\ CHANNELS[i].gates[2] \in GatesOf(design) \ GatesOf(natal)
    /\ \E i \in DOMAIN CHANNELS :
        /\ CHANNELS[i].id \notin Range(hd.channels)
        /\ CHANNELS[i].gates[1] \in GatesOf(natal)

----------------------------------------------------------------------------
(* Claims about the design-time resolvers, under SpecDesign *)

Resolved == pc = "resolved"

\* shortest signed arc from the natal sun to the sun of the design instant
DesignArc ==
    ((sun_longitude(dt_design, sunPace) - sun_longitude(birth_utc, sunPace)
        + 540 * ArcsecPerDeg) % Circle) - 180 * ArcsecPerDeg

\* C1: the instant design_time_from_solar_arc returns after its 50 steps has a
\* sun longitude whose shortest signed arc from the natal sun is -88 degrees,
\* within one step of the model's grid (an arcsecond)
C1_SolarArcIsMinus88 ==
    (Resolved /\ design_mode = "solarArc") => Abs(DesignArc - target_arc) <= 1

\* C10: in both design modes the resolved design instant is strictly earlier
\* than the natal instant
C10_DesignPrecedesNatal ==
    Resolved => dt_design < birth_utc

\* C12: for every designMode other than "solarArc" the design instant is the
\* natal instant less 88 days exactly, at the same second of the day, found
\* without the solar-arc search
C12_FixedOffset ==
    (Resolved /\ design_mode # "solarArc") =>
        /\ birth_utc - dt_design = 88 * 24 * 60 * 60
        /\ dt_design % (24 * 60 * 60) = birth_utc % (24 * 60 * 60)
        /\ iter = 0 /\ lo = 0 /\ hi = 0

\* a designMode that is neither the default nor "solarArc", off midnight
C12_Witness ==
    /\ Resolved /\ design_mode \notin {"days", "solarArc"}
    /\ birth_utc % SecondsPerDay # 0 /\ dt_design < 0

----------------------------------------------------------------------------
(* Claims about the channel table and about type against authority, under
   SpecHD *)

ChannelShape ==
    /\ \A i \in DOMAIN CHANNELS : \A j \in DOMAIN CHANNELS :
           i # j => CHANNELS[i].id # CHANNELS[j].id
    /\ \A i \in DOMAIN CHANNELS :
           /\ Len(CHANNELS[i].gates) = 2
           /\ Range(CHANNELS[i].gates) \subseteq 1..64
           /\ CHANNELS[i].gates[1] # CHANNELS[i].gates[2]
           /\ Len(CHANNELS[i].centers) = 2
           /\ Range(CHANNELS[i].centers) \subseteq
                {"Head", "Ajna", "Throat", "G", "Heart", "Spleen",
                 "Solar Plexus", "Sacral", "Root"}
           /\ CHANNELS[i].centers[1] # CHANNELS[i].centers[2]

C14_TypeAgainstAuthority ==
    /\ \A i \in DOMAIN CHANNELS :
           ("Throat" \in Range(CHANNELS[i].centers)
              /\ Range(CHANNELS[i].centers) \cap {"Heart", "Solar Plexus", "Root"} # {})
             => Range(CHANNELS[i].centers) \cap {"Solar Plexus", "Heart"} # {}
    /\ HDDone =>
         /\ hd.type = "Manifestor" =>
                hd.authority \in {"Emotional", "Splenic", "Ego"}
         /\ hd.authority = "Sacral" =>
                hd.type \in {"Generator", "Manifesting Generator"}

\* a Manifestor whose authority is neither the first nor the last of the three
C14_Witness ==
    /\ HDDone /\ hd.type = "Manifestor" /\ hd.authority = "Splenic"
    /\ "Throat" \in Defined

----------------------------------------------------------------------------
(* Claims about the /compute-profile handler, under SpecProfile *)

Responded == pc = "responded"
Accepted == payload.birthDate /\ payload.birthPlace
SnapshotOf(side) == IF side = "natal" THEN natal ELSE design

\* C11: no partial profile.  compute_bodies hands back a snapshot of all 11
\* bodies or none: when the ephemeris fails for a body at an instant, that
\* instant has no snapshot, and the request (if it got as far as the
\* ephemeris) is answered with an error of two fields, the kind and the
\* message, and no bodies, geneKeys or humanDesign; an answer with status
\* 200 carries all 11 bodies in both snapshots.
C11_NoPartialProfile ==
    /\ \A s \in Sides :
          /\ DOMAIN SnapshotOf(s) \in {{}, BodySet}
          /\ (\E b \in BodySet : <<s, b>> \in failing) => SnapshotOf(s) = NoSnapshot
    /\ (Responded /\ Accepted /\ failing # {}) =>
          /\ response.status = 500
          /\ DOMAIN response.body = {"error", "detail"}
          /\ response.body.error = "EphemerisError"
          /\ response.body.detail \in failing
    /\ (Responded /\ response.status = 200) =>
          /\ failing = {}
          /\ {"bodies", "geneKeys", "humanDesign"} \subseteq DOMAIN response.body
          /\ \A s \in Sides : DOMAIN response.body.bodies[s] = BodySet

\* the last lookup of the second snapshot fails: the natal snapshot is there
\* in full, and the answer has none of it
C11_Witness ==
    /\ Responded /\ response.status = 500
    /\ failing = {<<"design", "earth">>}
    /\ response.body.detail = <<"design", "earth">>
    /\ DOMAIN natal = BodySet /\ design = NoSnapshot

============================================================================
